---------------------------- MODULE Spec2Model ----------------------------
(***************************************************************************)
(* A model of src/src/models/msoc_all.py: the fusion step MSOC.loss_fn,    *)
(* the helpers Average and Opposite, and the epoch-end hooks of MSOC.      *)
(*                                                                         *)
(* Real numbers are exact rationals <<n, d>> in lowest terms with d > 0.   *)
(* The transcendental functions of torch (softplus inside the two          *)
(* cross-entropy losses, the two-class softmax) are tabulated in           *)
(* thousandths on the argument rounded to the nearest integer.             *)
(***************************************************************************)
EXTENDS Integers, Sequences, FiniteSets

(***************************************************************************)
(* Bounds of the model.                                                    *)
(***************************************************************************)
MaxBatch == 2
MaxLen == 3
NumWorkers == 2
MaxSamples == 3
MaxCalls == 2
MaxEpochs == 2

(***************************************************************************)
(* Rational arithmetic.                                                    *)
(***************************************************************************)
Abs(n) == IF n < 0 THEN -n ELSE n

RECURSIVE GCD(_, _)
GCD(a, b) == IF b = 0 THEN a ELSE GCD(b, a % b)

Rat(n, d) ==
    LET s == IF d < 0 THEN -1 ELSE 1
        g == GCD(Abs(n), Abs(d))
    IN  <<(s * n) \div g, (s * d) \div g>>

Zero == <<0, 1>>
One == <<1, 1>>
Half == <<1, 2>>

RAdd(x, y) == Rat(x[1] * y[2] + y[1] * x[2], x[2] * y[2])
RSub(x, y) == Rat(x[1] * y[2] - y[1] * x[2], x[2] * y[2])
RMul(x, y) == Rat(x[1] * y[1], x[2] * y[2])
RDivInt(x, k) == Rat(x[1], x[2] * k)
\* x > y: the integer parts first, then the fractional parts
RGt(x, y) ==
    LET fx == x[1] \div x[2]
        fy == y[1] \div y[2]
    IN  IF fx # fy THEN fx > fy
        ELSE (x[1] - fx * x[2]) * y[2] > (y[1] - fy * y[2]) * x[2]
RLe(x, y) == ~RGt(x, y)
RAbs(x) == <<Abs(x[1]), x[2]>>

RECURSIVE RSum(_)
RSum(s) == IF s = <<>> THEN Zero ELSE RAdd(Head(s), RSum(Tail(s)))

(***************************************************************************)
(* torch's numeric kernels, tabulated.  RoundInt rounds to the nearest     *)
(* integer and clamps to the table's range.                                *)
(***************************************************************************)
RoundInt(x) ==
    LET r == (2 * x[1] + x[2]) \div (2 * x[2])
    IN  IF r < -4 THEN -4 ELSE IF r > 4 THEN 4 ELSE r

SoftplusTable == <<18, 49, 127, 313, 693, 1313, 2127, 3049, 4018>>
SigmoidTable == <<18, 47, 119, 269, 500, 731, 881, 953, 982>>

Softplus(x) == Rat(SoftplusTable[RoundInt(x) + 5], 1000)
Sigmoid(x) == Rat(SigmoidTable[RoundInt(x) + 5], 1000)

\* CrossEntropyLoss over two classes, one sample: -log softmax(logits)[y].
CrossEntropy(logits, y) == Softplus(RSub(logits[2 - y], logits[y + 1]))

\* BCEWithLogitsLoss, one sample: softplus(x) - x * y.
BCEWithLogits(x, y) == RSub(Softplus(x), RMul(x, Rat(y, 1)))

\* reduction="mean" over the batch.
Mean(s) == RDivInt(RSum(s), Len(s))


(***************************************************************************)
(* State.                                                                  *)
(*   cfg            the constructor's arguments kept on self               *)
(*   mm_classifier  the Linear(3, 2) fusion layer's parameters             *)
(*   batch, result  the last call of loss_fn: its inputs and result_dict   *)
(*   pc             position of the single-call specifications             *)
(*   a_in, a_out    Opposite's argument and the results of applying it     *)
(*   loop           which loop the trainer runs: "train", "val" or "test"  *)
(*   outputs        per worker, the step outputs collected this epoch      *)
(*   calls          per worker, epoch-end calls on these outputs that      *)
(*                  returned, having computed and reported the metrics     *)
(*   eer_in         per worker, the two arrays last handed to compute_eer  *)
(*   logged         per worker, what the last epoch-end call reported      *)
(*   first          per worker, what the first epoch-end call of this      *)
(*                  epoch reported (history, for comparison only)          *)
(*   best           per worker, the best_* fields of self                  *)
(*   prev_best_loss per worker, best_loss before the last epoch-end call   *)
(*                  (history, for comparison only)                         *)
(*   epoch          epochs started so far                                  *)
(***************************************************************************)
VARIABLES cfg, mm_classifier, batch, result, pc, a_in, a_out,
          loop, outputs, calls, eer_in, logged, first, best,
          prev_best_loss, epoch

fusion_vars == <<cfg, mm_classifier, batch, result>>
opp_vars == <<a_in, a_out>>
epoch_vars == <<loop, outputs, calls, eer_in, logged, first, best,
                prev_best_loss, epoch>>
vars == <<cfg, mm_classifier, batch, result, pc, a_in, a_out,
          loop, outputs, calls, eer_in, logged, first, best,
          prev_best_loss, epoch>>

(***************************************************************************)
(* Inputs.  Scores come from the two OCSoftmax heads, av_logits from       *)
(* av_classifier, labels from the batch; v_loss and a_loss are the two     *)
(* OCSoftmax losses of the batch.                                          *)
(***************************************************************************)
ScoreVals == {<<1, 10>>, <<9, 10>>}
AvLogitVals == {<<Zero, Half>>, <<Zero, One>>, <<One, <<-1, 1>>>>}
LossVals == {Zero, One}
ThresholdVals == {Half, <<3, 4>>, One}

Samples ==
    [v_score : ScoreVals, a_score : ScoreVals, av_logits : AvLogitVals,
     m_label : {0, 1}, s_label : {0, 1}]

\* Two representative samples: a fake one every signal flags, and a real
\* one only the audio score flags.
FewSamples ==
    {[v_score |-> <<9, 10>>, a_score |-> <<9, 10>>, av_logits |-> <<Zero, One>>,
      m_label |-> 1, s_label |-> 1],
     [v_score |-> <<1, 10>>, a_score |-> <<9, 10>>, av_logits |-> <<Zero, Half>>,
      m_label |-> 0, s_label |-> 0]}

SeqsUpTo(S, n) == UNION {[1..k -> S] : k \in 0..n}

\* Batches of at most n samples: the first sample from S, the others from
\* FewSamples.
Batches(S, n, VLoss, ALoss) ==
    [samples : {<<s>> \o t : s \in S, t \in SeqsUpTo(FewSamples, n - 1)},
     v_loss : VLoss, a_loss : ALoss]

Configs ==
    [threshold : BOOLEAN, sync : BOOLEAN,
     audio_threshold : {Half}, video_threshold : {Half},
     final_threshold : ThresholdVals]

MMClassifiers ==
    {[w0 |-> <<Zero, Zero, Zero>>, w1 |-> <<One, One, One>>,
      b |-> <<Zero, <<-1, 1>>>>]}

(***************************************************************************)
(* MSOC.loss_fn.                                                           *)
(***************************************************************************)
\* (score > threshold).float()
Vote(score, thr) == IF RGt(score, thr) THEN One ELSE Zero

\* train_v_value, train_a_value: (score + 1) / 2
Remap(score) == RDivInt(RAdd(score, One), 2)

\* train_final_value of one sample
TrainFinalValue(c, s) ==
    RDivInt(RAdd(RAdd(Remap(s.v_score), Remap(s.a_score)), s.av_logits[2]), 3)

\* Mutant of FinalValue: the multimodal vote left out of the sum.
FinalValueTwoVotes(c, s) ==
    RDivInt(RAdd(Vote(s.v_score, c.video_threshold),
                 Vote(s.a_score, c.audio_threshold)), 3)

\* final_value of one sample
FinalValue(c, s) ==
    RDivInt(RAdd(RAdd(Vote(s.v_score, c.video_threshold),
                      Vote(s.a_score, c.audio_threshold)),
                 s.av_logits[2]), 3)

\* Mutant of ThresholdPred: >= in place of >.
ThresholdPredGe(c, value) == IF RGt(c.final_threshold, value) THEN 0 ELSE 1

\* (final_value > self.final_threshold).float()
ThresholdPred(c, value) == IF RGt(value, c.final_threshold) THEN 1 ELSE 0

\* Mutant of ThresholdScore: the training average returned as the score.
ThresholdScoreContinuous(c, s) == TrainFinalValue(c, s)

\* scores = final_value.data.cpu().numpy()
ThresholdScore(c, s) == FinalValue(c, s)

Dot3(w, x) == RAdd(RAdd(RMul(w[1], x[1]), RMul(w[2], x[2])), RMul(w[3], x[3]))

\* logits = self.mm_classifier(torch.stack([v_score, a_score, av_score]))
MMLogits(mm, s) ==
    LET x == <<s.v_score, s.a_score, s.av_logits[2]>>
    IN  <<RAdd(Dot3(mm.w0, x), mm.b[1]), RAdd(Dot3(mm.w1, x), mm.b[2])>>

\* torch.argmax over two classes: the first maximum wins
ArgMax(logits) == IF RGt(logits[2], logits[1]) THEN 1 ELSE 0

\* softmax(logits)[:, 1]
SoftmaxScore(logits) == Sigmoid(RSub(logits[2], logits[1]))

MMLoss(c, mm, b) ==
    LET n == Len(b.samples)
    IN  IF ~c.threshold
        THEN Mean([i \in 1..n |->
                 CrossEntropy(MMLogits(mm, b.samples[i]), b.samples[i].m_label)])
        ELSE Mean([i \in 1..n |->
                 BCEWithLogits(TrainFinalValue(c, b.samples[i]),
                               b.samples[i].m_label)])

\* av_loss = self.mm_cls(av_logits, s_label)
SyncLoss(b) ==
    Mean([i \in 1..Len(b.samples) |->
            CrossEntropy(b.samples[i].av_logits, b.samples[i].s_label)])

\* Mutant of TotalLoss: the synchrony term added whatever self.sync says.
TotalLossAlwaysSync(c, b, mm_loss) ==
    RAdd(RAdd(RAdd(b.v_loss, b.a_loss), mm_loss), SyncLoss(b))

\* loss = v_loss + a_loss + mm_loss (+ av_loss)
TotalLoss(c, b, mm_loss) ==
    IF c.sync
    THEN RAdd(RAdd(RAdd(b.v_loss, b.a_loss), mm_loss), SyncLoss(b))
    ELSE RAdd(RAdd(b.v_loss, b.a_loss), mm_loss)

loss_fn(c, mm, b) ==
    LET n == Len(b.samples)
        mm_loss == MMLoss(c, mm, b)
    IN  [loss |-> TotalLoss(c, b, mm_loss),
         mm_loss |-> mm_loss,
         scores |-> [i \in 1..n |->
                       IF ~c.threshold
                       THEN SoftmaxScore(MMLogits(mm, b.samples[i]))
                       ELSE ThresholdScore(c, b.samples[i])],
         preds |-> [i \in 1..n |->
                      IF ~c.threshold
                      THEN ArgMax(MMLogits(mm, b.samples[i]))
                      ELSE ThresholdPred(c, FinalValue(c, b.samples[i]))]]

NoBatch == [samples |-> <<>>, v_loss |-> Zero, a_loss |-> Zero]
NoResult == [loss |-> Zero, mm_loss |-> Zero, scores |-> <<>>, preds |-> <<>>]


(***************************************************************************)
(* Average and Opposite.                                                   *)
(***************************************************************************)
\* sum(lst) / len(lst)
Average(lst) == RDivInt(RSum(lst), Len(lst))

\* Mutant of OppositeElem: the reset taken at 0.5 instead of 1.5.
OppositeElemLowCut(x) == IF 2 * (x + 1) > 1 THEN 0 ELSE x + 1

\* a = a + 1; a[a > 1.5] = 0   (one element; 1.5 is compared as 2a > 3)
OppositeElem(x) == IF 2 * (x + 1) > 3 THEN 0 ELSE x + 1

Opposite(a) == [i \in 1..Len(a) |-> OppositeElem(a[i])]

(***************************************************************************)
(* torchmetrics' binary metrics on 0/1 predictions, from the confusion     *)
(* counts; a quotient with denominator 0 is reported as 0.                 *)
(***************************************************************************)
Count(preds, targets, p, t) ==
    Cardinality({i \in 1..Len(preds) : preds[i] = p /\ targets[i] = t})

SafeDiv(n, d) == IF d = 0 THEN Zero ELSE Rat(n, d)

BinaryAccuracy(preds, targets) ==
    SafeDiv(Count(preds, targets, 1, 1) + Count(preds, targets, 0, 0), Len(preds))

BinaryRecall(preds, targets) ==
    SafeDiv(Count(preds, targets, 1, 1),
            Count(preds, targets, 1, 1) + Count(preds, targets, 0, 1))

BinaryPrecision(preds, targets) ==
    SafeDiv(Count(preds, targets, 1, 1),
            Count(preds, targets, 1, 1) + Count(preds, targets, 1, 0))

BinaryF1Score(preds, targets) ==
    SafeDiv(2 * Count(preds, targets, 1, 1),
            2 * Count(preds, targets, 1, 1) + Count(preds, targets, 1, 0)
              + Count(preds, targets, 0, 1))

\* The area under the three-point ROC curve of 0/1 predictions.
BinaryAUROC(preds, targets) ==
    LET tp == Count(preds, targets, 1, 1)
        fp == Count(preds, targets, 1, 0)
        p == tp + Count(preds, targets, 0, 1)
        n == fp + Count(preds, targets, 0, 0)
    IN  IF p = 0 \/ n = 0 THEN Zero
        ELSE RDivInt(RSub(RAdd(One, Rat(tp, p)), Rat(fp, n)), 2)

(***************************************************************************)
(* compute_eer of eval_metrics: the equal error rate of the two score      *)
(* distributions, undefined when either is empty.  The threshold sweeps    *)
(* below every score and then over each score; the rate is the mean of the *)
(* false-rejection and false-acceptance rates where the two are closest.   *)
(* eval_metrics is not part of the sources modelled here: the definition   *)
(* follows the documented contract of the function.                        *)
(***************************************************************************)
Undefined == [defined |-> FALSE, value |-> Zero]
Defined(x) == [defined |-> TRUE, value |-> x]

SeqRange(s) == {s[i] : i \in 1..Len(s)}

EerPoint(target, nontarget, t) ==
    [frr |-> Rat(Cardinality({i \in 1..Len(target) : RLe(target[i], t)}),
                 Len(target)),
     far |-> Rat(Cardinality({i \in 1..Len(nontarget) : RGt(nontarget[i], t)}),
                 Len(nontarget))]

EerGap(pt) == RAbs(RSub(pt.frr, pt.far))

compute_eer(target, nontarget) ==
    IF Len(target) = 0 \/ Len(nontarget) = 0 THEN Undefined
    ELSE LET pts == {[frr |-> Zero, far |-> One]} \cup
                    {EerPoint(target, nontarget, t) :
                        t \in SeqRange(target) \cup SeqRange(nontarget)}
             best_pt == CHOOSE pt \in pts :
                          \A q \in pts :
                             \/ RGt(EerGap(q), EerGap(pt))
                             \/ EerGap(q) = EerGap(pt) /\ RLe(pt.frr, q.frr)
         IN  Defined(RDivInt(RAdd(best_pt.frr, best_pt.far), 2))


(***************************************************************************)
(* The step functions: what each returns for one batch.  training_step     *)
(* returns no scores.  The *_step_end hooks only log per-batch accuracy    *)
(* and AUROC and return nothing, so the step's own output is what the      *)
(* epoch-end hook receives.                                                *)
(***************************************************************************)
Workers == 1..NumWorkers

Targets(b) == [i \in 1..Len(b.samples) |-> b.samples[i].m_label]

training_step(c, mm, b) ==
    LET r == loss_fn(c, mm, b)
    IN  [loss |-> r.loss, preds |-> r.preds, targets |-> Targets(b),
         scores |-> <<>>]

validation_step(c, mm, b) ==
    LET r == loss_fn(c, mm, b)
    IN  [loss |-> r.loss, preds |-> r.preds, targets |-> Targets(b),
         scores |-> r.scores]

test_step(c, mm, b) ==
    LET r == loss_fn(c, mm, b)
    IN  [loss |-> r.loss, preds |-> r.preds, targets |-> Targets(b),
         scores |-> r.scores]

(***************************************************************************)
(* The epoch-end hooks' computations on the list of step outputs.          *)
(***************************************************************************)
Losses(outs) == [i \in 1..Len(outs) |-> outs[i].loss]

\* [item for list in outs for item in list[key]]
RECURSIVE FlatPreds(_)
FlatPreds(outs) ==
    IF outs = <<>> THEN <<>> ELSE Head(outs).preds \o FlatPreds(Tail(outs))

RECURSIVE FlatTargets(_)
FlatTargets(outs) ==
    IF outs = <<>> THEN <<>> ELSE Head(outs).targets \o FlatTargets(Tail(outs))

RECURSIVE FlatScores(_)
FlatScores(outs) ==
    IF outs = <<>> THEN <<>> ELSE Head(outs).scores \o FlatScores(Tail(outs))

\* Mutant of SelectScores: the mask dropped, every score selected.
SelectScoresNoMask(scores, targets, v) == scores

\* scores[numpy_targets == v]
RECURSIVE SelectScores(_, _, _)
SelectScores(scores, targets, v) ==
    IF scores = <<>> THEN <<>>
    ELSE (IF Head(targets) = v THEN <<Head(scores)>> ELSE <<>>)
         \o SelectScores(Tail(scores), Tail(targets), v)

\* the two arrays handed to compute_eer
EerArgs(outs) ==
    [target |-> SelectScores(FlatScores(outs), FlatTargets(outs), 1),
     nontarget |-> SelectScores(FlatScores(outs), FlatTargets(outs), 0)]

EpochEer(outs) == compute_eer(EerArgs(outs).target, EerArgs(outs).nontarget)

\* the loss and the eight classification metrics of validation and test
EpochMetrics(outs) ==
    LET preds == FlatPreds(outs)
        targets == FlatTargets(outs)
    IN  [loss |-> Average(Losses(outs)),
         acc |-> BinaryAccuracy(preds, targets),
         auroc |-> BinaryAUROC(preds, targets),
         real_f1score |-> BinaryF1Score(preds, targets),
         real_recall |-> BinaryRecall(preds, targets),
         real_precision |-> BinaryPrecision(preds, targets),
         fake_f1score |-> BinaryF1Score(Opposite(preds), Opposite(targets)),
         fake_recall |-> BinaryRecall(Opposite(preds), Opposite(targets)),
         fake_precision |-> BinaryPrecision(Opposite(preds), Opposite(targets))]

\* training_epoch_end computes the loss, accuracy and AUROC only
TrainMetrics(outs) ==
    LET preds == FlatPreds(outs)
        targets == FlatTargets(outs)
    IN  [loss |-> Average(Losses(outs)),
         acc |-> BinaryAccuracy(preds, targets),
         auroc |-> BinaryAUROC(preds, targets),
         real_f1score |-> Zero, real_recall |-> Zero, real_precision |-> Zero,
         fake_f1score |-> Zero, fake_recall |-> Zero, fake_precision |-> Zero]

\* the constructor's best_* fields
BestLossInit == 1000000000

InitBest ==
    [loss |-> Rat(BestLossInit, 1), acc |-> Zero, auroc |-> Zero,
     real_f1score |-> Zero, real_recall |-> Zero, real_precision |-> Zero,
     fake_f1score |-> Zero, fake_recall |-> Zero, fake_precision |-> Zero]

\* Mutant of BestAfter: the commented-out guard "if valid_loss <= best_loss".
BestAfterIfLower(old, new) == IF RLe(new.loss, old.loss) THEN new ELSE old

\* validation_epoch_end's assignments to the best_* fields
BestAfter(old, new) == new

NoArgs == [target |-> <<>>, nontarget |-> <<>>]
NoLog == [eer |-> Undefined, metrics |-> InitBest, n |-> 0]

NumSamples(outs) == Len(FlatTargets(outs))


(***************************************************************************)
(* Initial values shared by the specifications.                            *)
(***************************************************************************)
\* the constructor's defaults, with either fusion mode
DefaultConfigs ==
    [threshold : BOOLEAN, sync : {FALSE},
     audio_threshold : {Half}, video_threshold : {Half},
     final_threshold : {Half}]

FusionIdle ==
    /\ batch = NoBatch
    /\ result = NoResult

OppositeIdle ==
    /\ a_in = <<>>
    /\ a_out = <<>>

EpochIdle ==
    /\ outputs = [w \in Workers |-> <<>>]
    /\ calls = [w \in Workers |-> 0]
    /\ eer_in = [w \in Workers |-> NoArgs]
    /\ logged = [w \in Workers |-> NoLog]
    /\ first = [w \in Workers |-> [logged |-> NoLog, best |-> InitBest]]
    /\ best = [w \in Workers |-> InitBest]
    /\ prev_best_loss = [w \in Workers |-> InitBest.loss]
    /\ epoch = [w \in Workers |-> 1]

(***************************************************************************)
(* One call of loss_fn on any batch, under any configuration.              *)
(***************************************************************************)
InitLossFn ==
    /\ cfg \in Configs
    /\ mm_classifier \in MMClassifiers
    /\ pc = "init"
    /\ loop = "val"
    /\ FusionIdle /\ OppositeIdle /\ EpochIdle

CallLossFn ==
    /\ pc = "init"
    /\ \E b \in Batches(Samples, MaxBatch, LossVals, LossVals) :
          /\ batch' = b
          /\ result' = loss_fn(cfg, mm_classifier, b)
    /\ pc' = "called"
    /\ UNCHANGED <<cfg, mm_classifier, opp_vars, epoch_vars>>

NextLossFn == CallLossFn

SpecLossFn == InitLossFn /\ [][NextLossFn]_vars

(***************************************************************************)
(* Opposite applied once and then to its own result.                       *)
(***************************************************************************)
OppositeVals == {-1, 0, 1, 2}

InitOpposite ==
    /\ cfg \in DefaultConfigs
    /\ mm_classifier \in MMClassifiers
    /\ pc = "init"
    /\ loop = "val"
    /\ a_in \in UNION {[1..n -> OppositeVals] : n \in 1..MaxLen}
    /\ a_out = <<>>
    /\ FusionIdle /\ EpochIdle

CallOpposite ==
    /\ pc = "init"
    /\ a_out' = <<Opposite(a_in)>>
    /\ pc' = "once"
    /\ UNCHANGED <<a_in, fusion_vars, epoch_vars>>

CallOppositeAgain ==
    /\ pc = "once"
    /\ a_out' = Append(a_out, Opposite(a_out[1]))
    /\ pc' = "twice"
    /\ UNCHANGED <<a_in, fusion_vars, epoch_vars>>

NextOpposite == CallOpposite \/ CallOppositeAgain

SpecOpposite == InitOpposite /\ [][NextOpposite]_vars


(***************************************************************************)
(* The trainer's loops.  Each worker holds its own replica of the module   *)
(* and collects the outputs of its own steps; at the end of the epoch the  *)
(* hook is called with the list the worker collected.  The hooks take any  *)
(* non-empty list (Average divides by its length) and can be called again  *)
(* on the same list; the next epoch starts from an empty one.              *)
(***************************************************************************)
\* Mutant of Collected: a repeated call sees the samples accumulated.
CollectedAccumulated(w) ==
    IF calls[w] > 0 THEN outputs[w] \o outputs[w] ELSE outputs[w]

\* the list an epoch-end hook of worker w is called with
Collected(w) == outputs[w]

StepBatches(w) ==
    {b \in Batches(FewSamples, MaxBatch, {Half}, {Half}) :
        NumSamples(outputs[w]) + Len(b.samples) <= MaxSamples}

Step(w, out) ==
    /\ calls[w] = 0
    /\ outputs' = [outputs EXCEPT ![w] = Append(@, out)]
    /\ UNCHANGED <<cfg, mm_classifier, batch, result, pc, opp_vars, loop,
                   calls, eer_in, logged, first, best, prev_best_loss, epoch>>

TrainingStep(w) ==
    /\ loop = "train"
    /\ \E b \in StepBatches(w) : Step(w, training_step(cfg, mm_classifier, b))

ValidationStep(w) ==
    /\ loop = "val"
    /\ \E b \in StepBatches(w) : Step(w, validation_step(cfg, mm_classifier, b))

TestStep(w) ==
    /\ loop = "test"
    /\ \E b \in StepBatches(w) : Step(w, test_step(cfg, mm_classifier, b))

\* what an epoch-end call leaves behind, apart from the best_* fields
EpochEnd(w, args, log, new_best) ==
    /\ Len(outputs[w]) > 0
    /\ calls[w] < MaxCalls
    /\ calls' = [calls EXCEPT ![w] = @ + 1]
    /\ eer_in' = [eer_in EXCEPT ![w] = args]
    /\ logged' = [logged EXCEPT ![w] = log]
    /\ prev_best_loss' = [prev_best_loss EXCEPT ![w] = best[w].loss]
    /\ best' = [best EXCEPT ![w] = new_best]
    /\ first' = [first EXCEPT ![w] =
                   IF calls[w] = 0 THEN [logged |-> log, best |-> new_best]
                   ELSE @]
    /\ UNCHANGED <<cfg, mm_classifier, batch, result, pc, opp_vars, loop,
                   outputs, epoch>>

TrainingEpochEnd(w) ==
    /\ loop = "train"
    /\ EpochEnd(w, eer_in[w],
                [eer |-> Undefined, metrics |-> TrainMetrics(Collected(w)),
                 n |-> NumSamples(Collected(w))],
                best[w])

ValidationEpochEnd(w) ==
    /\ loop = "val"
    /\ EpochEnd(w, EerArgs(Collected(w)),
                [eer |-> EpochEer(Collected(w)),
                 metrics |-> EpochMetrics(Collected(w)),
                 n |-> NumSamples(Collected(w))],
                BestAfter(best[w], EpochMetrics(Collected(w))))

TestEpochEnd(w) ==
    /\ loop = "test"
    /\ EpochEnd(w, EerArgs(Collected(w)),
                [eer |-> EpochEer(Collected(w)),
                 metrics |-> EpochMetrics(Collected(w)),
                 n |-> NumSamples(Collected(w))],
                best[w])

\* the trainer starts the next epoch with an empty list; what the last
\* epoch reported is forgotten, the best_* fields stay
NextEpoch(w) ==
    /\ calls[w] > 0
    /\ epoch[w] < MaxEpochs
    /\ epoch' = [epoch EXCEPT ![w] = @ + 1]
    /\ outputs' = [outputs EXCEPT ![w] = <<>>]
    /\ calls' = [calls EXCEPT ![w] = 0]
    /\ eer_in' = [eer_in EXCEPT ![w] = NoArgs]
    /\ logged' = [logged EXCEPT ![w] = NoLog]
    /\ first' = [first EXCEPT ![w] = [logged |-> NoLog, best |-> InitBest]]
    /\ prev_best_loss' = [prev_best_loss EXCEPT ![w] = InitBest.loss]
    /\ UNCHANGED <<cfg, mm_classifier, batch, result, pc, opp_vars, loop, best>>

InitEpoch ==
    /\ cfg \in DefaultConfigs
    /\ mm_classifier \in MMClassifiers
    /\ pc = "init"
    /\ loop \in {"train", "val", "test"}
    /\ FusionIdle /\ OppositeIdle /\ EpochIdle

WorkerNext(w) ==
    \/ TrainingStep(w)
    \/ ValidationStep(w)
    \/ TestStep(w)
    \/ TrainingEpochEnd(w)
    \/ ValidationEpochEnd(w)
    \/ TestEpochEnd(w)
    \/ NextEpoch(w)

\* a single process
NextSingle == WorkerNext(1)

Spec == InitEpoch /\ [][NextSingle]_vars

\* one process per worker, one epoch
NextDDP ==
    \E w \in Workers :
        \/ TrainingStep(w)
        \/ ValidationStep(w)
        \/ TestStep(w)
        \/ TrainingEpochEnd(w)
        \/ ValidationEpochEnd(w)
        \/ TestEpochEnd(w)

SpecDDP == InitEpoch /\ [][NextDDP]_vars


(***************************************************************************)
(* Helpers of the properties.                                              *)
(***************************************************************************)
Occurrences(s, x) == Cardinality({i \in 1..Len(s) : s[i] = x})

\* the same elements with the same multiplicities
SameBag(s, t) ==
    /\ Len(s) = Len(t)
    /\ \A x \in SeqRange(s) \cup SeqRange(t) : Occurrences(s, x) = Occurrences(t, x)

RECURSIVE OutputsUpTo(_)
OutputsUpTo(w) == IF w = 0 THEN <<>> ELSE OutputsUpTo(w - 1) \o outputs[w]

\* the step outputs of every worker
AllOutputs == OutputsUpTo(NumWorkers)

EvalLoop == loop \in {"val", "test"}

\* sum of loss * batch size over sum of batch sizes
WeightedMean(outs) ==
    RDivInt(RSum([i \in 1..Len(outs) |->
                    RMul(outs[i].loss, Rat(Len(outs[i].targets), 1))]),
            NumSamples(outs))

IsBinary(a) == \A i \in 1..Len(a) : a[i] \in {0, 1}

\* the sample of the worked example: audio 0.9, visual 0.1, av logit 0.5
IsExample(s) ==
    /\ s.a_score = <<9, 10>>
    /\ s.v_score = <<1, 10>>
    /\ s.av_logits[2] = Half

\* both unimodal votes are 1 and the multimodal vote is 1
AllVotesFake(c, s) ==
    /\ RGt(s.v_score, c.video_threshold)
    /\ RGt(s.a_score, c.audio_threshold)
    /\ s.av_logits[2] = One

\* (visual_vote + audio_vote + av_logit_positive) / 3
VoteAverage(c, s) ==
    RDivInt(RAdd(RAdd(IF RGt(s.v_score, c.video_threshold) THEN One ELSE Zero,
                      IF RGt(s.a_score, c.audio_threshold) THEN One ELSE Zero),
                 s.av_logits[2]), 3)

\* ((visual + 1) / 2 + (audio + 1) / 2 + av_logit_positive) / 3
ContinuousAverage(s) ==
    RDivInt(RAdd(RAdd(RDivInt(RAdd(s.v_score, One), 2),
                      RDivInt(RAdd(s.a_score, One), 2)),
                 s.av_logits[2]), 3)

ThresholdCall == pc = "called" /\ cfg.threshold

\* the batch with its synchrony labels replaced by l
WithSyncLabels(b, l) ==
    [b EXCEPT !.samples =
        [i \in 1..Len(b.samples) |-> [b.samples[i] EXCEPT !.s_label = l[i]]]]

(***************************************************************************)
(* C1.  With several workers, the EER of validation_epoch_end and          *)
(* test_epoch_end is computed from the samples of every worker: once every *)
(* worker has run its epoch-end hook, the two arrays each worker handed to *)
(* compute_eer hold the scores of all workers' samples of the epoch.       *)
(* Stated as the claim states it; the hooks violate it (SpecDDP).          *)
(***************************************************************************)
C1_EerOverAllWorkers ==
    (EvalLoop /\ \A u \in Workers : calls[u] > 0) =>
        \A w \in Workers :
            /\ SameBag(eer_in[w].target, EerArgs(AllOutputs).target)
            /\ SameBag(eer_in[w].nontarget, EerArgs(AllOutputs).nontarget)

C4_StrictThreshold ==
    ThresholdCall =>
        \A i \in 1..Len(batch.samples) :
            /\ result.preds[i] \in {0, 1}
            /\ result.preds[i] = 1
                 <=> RGt(VoteAverage(cfg, batch.samples[i]), cfg.final_threshold)
            /\ (IsExample(batch.samples[i]) /\ cfg.final_threshold = Half)
                 => /\ VoteAverage(cfg, batch.samples[i]) = Half
                    /\ result.preds[i] = 0

C4_Witness ==
    /\ ThresholdCall
    /\ cfg.final_threshold = Half
    /\ IsExample(batch.samples[1])
    /\ result.preds[1] = 0

(***************************************************************************)
(* C5.  In threshold mode a sample whose three votes are all 1 is          *)
(* predicted 1 for every final_threshold <= 1.  Stated as the claim states *)
(* it; loss_fn violates it at final_threshold = 1.                         *)
(***************************************************************************)
C5_AllFakeUpToOne ==
    ThresholdCall =>
        \A i \in 1..Len(batch.samples) :
            (AllVotesFake(cfg, batch.samples[i]) /\ RLe(cfg.final_threshold, One))
                => result.preds[i] = 1

(***************************************************************************)
(* C5, amended.  In threshold mode a sample whose three votes are all 1    *)
(* is predicted 1 for every final_threshold < 1, and 0 at                  *)
(* final_threshold = 1.                                                    *)
(***************************************************************************)
C5_AllFakeBelowOne ==
    ThresholdCall =>
        \A i \in 1..Len(batch.samples) :
            AllVotesFake(cfg, batch.samples[i]) =>
                /\ RGt(One, cfg.final_threshold) => result.preds[i] = 1
                /\ cfg.final_threshold = One => result.preds[i] = 0

C5_Witness ==
    /\ ThresholdCall
    /\ cfg.final_threshold = <<3, 4>>
    /\ AllVotesFake(cfg, batch.samples[1])
    /\ result.preds[1] = 1

(***************************************************************************)
(* C6.  In threshold mode the score loss_fn returns for a sample is the    *)
(* continuous average the training loss uses.  Stated as the claim states  *)
(* it; loss_fn violates it.                                                *)
(***************************************************************************)
C6_ScoreIsContinuous ==
    ThresholdCall =>
        \A i \in 1..Len(batch.samples) :
            result.scores[i] = ContinuousAverage(batch.samples[i])

(***************************************************************************)
(* C6, amended.  In threshold mode the score loss_fn returns for a sample  *)
(* is the average of the two binarized votes and the positive av logit,    *)
(* the value the prediction compares with final_threshold.                 *)
(***************************************************************************)
C6_ScoreIsVoteAverage ==
    ThresholdCall =>
        \A i \in 1..Len(batch.samples) :
            result.scores[i] = VoteAverage(cfg, batch.samples[i])

C6_Witness ==
    /\ ThresholdCall
    /\ Len(batch.samples) = 2
    /\ \A i \in 1..2 :
          /\ result.scores[i] = VoteAverage(cfg, batch.samples[i])
          /\ result.scores[i] # ContinuousAverage(batch.samples[i])

(***************************************************************************)
(* C7.  In both fusion modes the total loss is audio_loss + visual_loss +  *)
(* fusion_loss, plus the synchrony cross-entropy exactly when sync is      *)
(* enabled; with sync disabled the total loss is the same whatever the     *)
(* synchrony labels are.                                                   *)
(***************************************************************************)
C7_TotalLoss ==
    pc = "called" =>
        LET base == RAdd(RAdd(batch.a_loss, batch.v_loss), result.mm_loss)
            n == Len(batch.samples)
        IN  /\ cfg.sync =>
                 result.loss =
                    RAdd(base,
                         Mean([i \in 1..n |->
                                 CrossEntropy(batch.samples[i].av_logits,
                                              batch.samples[i].s_label)]))
            /\ ~cfg.sync =>
                 /\ result.loss = base
                 /\ \A l \in [1..n -> {0, 1}] :
                       loss_fn(cfg, mm_classifier, WithSyncLabels(batch, l)).loss
                          = result.loss

C7_Witness ==
    /\ pc = "called"
    /\ cfg.sync
    /\ ~cfg.threshold
    /\ Len(batch.samples) = 2
    /\ batch.samples[1].s_label # batch.samples[2].s_label
    /\ RGt(result.loss, RAdd(RAdd(batch.a_loss, batch.v_loss), result.mm_loss))

(***************************************************************************)
(* C8.  Opposite applied twice to a tensor of 0s and 1s gives the tensor   *)
(* back.                                                                   *)
(***************************************************************************)
C8_OppositeInvolution ==
    (pc = "twice" /\ IsBinary(a_in)) => a_out[2] = a_in

C8_Witness ==
    /\ pc = "twice"
    /\ SeqRange(a_in) = {0, 1}
    /\ a_out[1] # a_in
    /\ a_out[2] = a_in

(***************************************************************************)
(* C9.  The epoch loss is the mean of the batch losses when the batches    *)
(* have one size and the batch-size-weighted mean when they differ: in     *)
(* both cases the size-weighted mean.  Stated as the claim states it; the  *)
(* hooks violate it when batch sizes differ.                               *)
(***************************************************************************)
C9_SizeWeightedLoss ==
    \A w \in Workers :
        calls[w] > 0 => logged[w].metrics.loss = WeightedMean(outputs[w])

(***************************************************************************)
(* C10.  After validation_epoch_end every best_* field holds the value of  *)
(* the epoch just aggregated, whatever best_loss was before.               *)
(***************************************************************************)
C10_BestIsLastEpoch ==
    \A w \in Workers :
        (loop = "val" /\ calls[w] > 0) => best[w] = EpochMetrics(outputs[w])

C10_Witness ==
    /\ loop = "val"
    /\ calls[1] > 0
    /\ epoch[1] = 2
    /\ RGt(best[1].loss, prev_best_loss[1])
    /\ best[1].loss = Average(Losses(outputs[1]))

=============================================================================
